---- MODULE Spec2Model ----
(***************************************************************************)
(* State-machine model of three components of rclcpp:                      *)
(*   - LoanedMessage            (rclcpp/loaned_message.hpp, lines 30-166)  *)
(*   - AsyncParametersClient    (same file, lines 214-404)                 *)
(*   - QOSEventHandlerBase / QOSEventHandler (qos_event.hpp, qos_event.cpp)*)
(* Each component has its own specification (SpecLoan, SpecParam,          *)
(* SpecEvent); the variables of the other components stay at their initial *)
(* values.                                                                 *)
(***************************************************************************)
EXTENDS Integers, Sequences, FiniteSets, TLC

VARIABLES
  \* ---- LoanedMessage -------------------------------------------------
  canLoan,     \* what pub_->can_loan_messages() answers at this moment
  hState,      \* per handle object: "none" (not constructed yet), "failed"
               \* (its constructor threw: no object exists), "live", "dead"
  pub_,        \* per handle: the pub_ member (NULL or Pub)
  message_,    \* per handle: the message_ member (NULL or a buffer)
  nextBuf,     \* number of buffers handed out so far
  bufSrc,      \* per buffer: the memory source it came from
  mem,         \* per buffer: contents of the MessageT stored in it
  relLog,      \* per handle: the release calls its destructor made
  movedFrom,   \* per handle: it was the source of a move construction
  advisories,  \* number of RCLCPP_WARN advisories emitted
  fault,       \* the process died on a null dereference
  lastOp,      \* the operation executed last, with its inputs and outcome
  \* ---- AsyncParametersClient ----------------------------------------
  built,              \* the AsyncParametersClient constructor has run
  remoteArg,          \* the remote_node_name argument the constructor got
  remote_node_name_,  \* the remote_node_name_ member
  clients,            \* per client member: the service name it was created
                      \* with, or NoClient when the member was never assigned
  call,               \* the async call in progress: its inputs, its stack
                      \* frame, its promise/future shared state, its request
  pFault,             \* the process died inside the parameter client
  bridge,             \* the blocking wait on the call's future: its deadline,
                      \* its position and its outcome
  \* ---- QOSEventHandler ----------------------------------------------
  eState,      \* per event handler object: "none", "failed", "live", "dead"
  eInit,       \* per handler: init_func succeeded on its event_handle_
  eFini,       \* per handler: number of rcl_event_fini calls on its handle
  eIndex,      \* per handler: the wait_set_event_index_ member
  wsEvents,    \* the wait set's events array: per slot a handle or NULL
  ePending,    \* per handler: occurrences queued on its native handle
  eLast        \* the event-handler operation executed last, with its outcome

loanVars == <<canLoan, hState, pub_, message_, nextBuf, bufSrc, mem, relLog,
              movedFrom, advisories, fault, lastOp>>

paramVars == <<built, remoteArg, remote_node_name_, clients, call, pFault,
               bridge>>

eventVars == <<eState, eInit, eFini, eIndex, wsEvents, ePending, eLast>>

vars == <<loanVars, paramVars, eventVars>>

\* ---------------------------------------------------------------- bounds
MaxHandles == 3      \* LoanedMessage objects that can be constructed
MaxBuf == 2          \* buffers the pool and the allocator can hand out
MaxVal == 1          \* message contents range over 0..MaxVal
MaxNames == 2        \* longest list of requested names / returned values
MaxEHandlers == 2    \* event handler objects that can be constructed
WaitSetSize == 2     \* slots of the wait set's events array
MaxPending == 2      \* occurrences that can queue on one native handle

NULL == 0
Pub == 1

Handles == 1..MaxHandles
Buffers == 1..MaxBuf
Contents == 0..MaxVal

\* ------------------------------------------------------- LoanedMessage

NoOp == [op |-> "init", h |-> NULL, src |-> NULL, buf |-> NULL, val |-> 0,
         req |-> "none", err |-> "none", pubArg |-> NULL,
         poolOk |-> FALSE, allocOk |-> FALSE]

\* bool is_valid() const { return message_ != nullptr; }
is_valid(h) == message_[h] # NULL

\* The memory source the constructor asks, by the capability query's answer.
AcquirePath(loan) == IF loan THEN "pool" ELSE "alloc"

\* The release path the destructor takes, by the capability query's answer.
ReleasePath(loan) == IF loan THEN "pool" ELSE "alloc"

\* The release calls ~LoanedMessage() makes for a handle whose pub_ is p and
\* whose message_ is m, when the capability query answers loan and the pool
\* return answers ret.
DtorCallsFallThrough(p, m, loan, ret) ==
  IF p = NULL THEN <<>>
  ELSE IF loan /\ ret # "OK"
       THEN << <<"pool", m, ret>>, <<"alloc", m, "OK">> >>
       ELSE IF loan THEN << <<"pool", m, ret>> >>
            ELSE << <<"alloc", m, "OK">> >>
DtorCalls(p, m, loan, ret) ==
  IF p = NULL
    THEN <<>>                               \* logs and returns
    ELSE IF ReleasePath(loan) = "pool"
           THEN << <<"pool", m, ret>> >>    \* rcl_deallocate_loaned_message
           ELSE << <<"alloc", m, "OK">> >>  \* message_allocator_->deallocate

\* The value of message_ once the destructor has run: release() empties it on
\* every path past the pub_ check; on the pub_ == nullptr path the unique_ptr
\* member is destroyed after the body.
DtorMessageKept(p, m) == m
DtorMessage(p, m) == NULL

\* What a move construction leaves in the source's message_ (unique_ptr move).
MovedFromMessageKept(m) == m
MovedFromMessage(m) == NULL

\* What a move construction leaves in the source's pub_ (a raw pointer: copied).
MovedFromPub(p) == p

\* The object about to be constructed takes the next unused identity.
NextHandle(h) == hState[h] = "none" /\ \A d \in Handles : d < h => hState[d] # "none"

\* Whether the constructor gets memory, by the capability query's answer:
\* it asks the pool or the allocator, never both.
SuppliedByEither(can, poolOk, allocOk) == poolOk \/ allocOk
Supplied(can, poolOk, allocOk) == IF can THEN poolOk ELSE allocOk

\* How the constructor fails when the source it asked has no memory: a null
\* answer of the pool is turned into std::runtime_error("unable to allocate
\* memory for loaned message"), std::allocator::allocate throws
\* std::bad_alloc itself.
AllocationFailure(can) == IF can THEN "no_memory" ELSE "bad_alloc"
AllocationErrors == {"no_memory", "bad_alloc"}

\* LoanedMessage(pub, allocator); poolOk and allocOk say whether the pool and
\* the allocator have memory to give at this moment.
Construct(h, p, poolOk, allocOk) ==
  /\ ~fault
  /\ NextHandle(h)
  /\ p = NULL => (poolOk /\ allocOk)
  /\ (p # NULL /\ nextBuf = MaxBuf) => (~poolOk /\ ~allocOk)
  /\ IF p = NULL
       THEN \* throw std::runtime_error("publisher pointer is null")
            /\ lastOp' = [NoOp EXCEPT !.op = "construct", !.h = h,
                                      !.pubArg = p, !.err = "null_pub",
                                      !.poolOk = poolOk, !.allocOk = allocOk]
            /\ hState' = [hState EXCEPT ![h] = "failed"]
            /\ UNCHANGED <<pub_, message_, nextBuf, bufSrc, mem, advisories>>
       ELSE /\ advisories' = IF canLoan THEN advisories ELSE advisories + 1
            /\ IF Supplied(canLoan, poolOk, allocOk)
                 THEN \* message_.reset(new (message_memory) MessageT())
                      /\ nextBuf' = nextBuf + 1
                      /\ bufSrc' = [bufSrc EXCEPT ![nextBuf + 1] = AcquirePath(canLoan)]
                      /\ mem' = [mem EXCEPT ![nextBuf + 1] = 0]
                      /\ hState' = [hState EXCEPT ![h] = "live"]
                      /\ pub_' = [pub_ EXCEPT ![h] = p]
                      /\ message_' = [message_ EXCEPT ![h] = nextBuf + 1]
                      /\ lastOp' = [NoOp EXCEPT !.op = "construct", !.h = h,
                                       !.pubArg = p,
                                       !.buf = nextBuf + 1,
                                       !.req = AcquirePath(canLoan),
                                       !.err = "ok",
                                       !.poolOk = poolOk, !.allocOk = allocOk]
                 ELSE \* the constructor throws
                      /\ lastOp' = [NoOp EXCEPT !.op = "construct", !.h = h,
                                       !.pubArg = p,
                                       !.req = AcquirePath(canLoan),
                                       !.err = AllocationFailure(canLoan),
                                       !.poolOk = poolOk, !.allocOk = allocOk]
                      /\ hState' = [hState EXCEPT ![h] = "failed"]
                      /\ UNCHANGED <<pub_, message_, nextBuf, bufSrc, mem>>
  /\ UNCHANGED <<canLoan, relLog, movedFrom, fault>>
  /\ UNCHANGED <<paramVars, eventVars>>

\* LoanedMessage(LoanedMessage && other)
Move(src, dst) ==
  /\ ~fault
  /\ src # dst
  /\ hState[src] = "live"
  /\ NextHandle(dst)
  /\ hState' = [hState EXCEPT ![dst] = "live"]
  /\ pub_' = [pub_ EXCEPT ![dst] = pub_[src], ![src] = MovedFromPub(pub_[src])]
  /\ message_' = [message_ EXCEPT ![dst] = message_[src],
                                  ![src] = MovedFromMessage(message_[src])]
  /\ movedFrom' = [movedFrom EXCEPT ![src] = TRUE]
  /\ lastOp' = [NoOp EXCEPT !.op = "move", !.h = dst, !.src = src,
                            !.buf = message_[src],
                            !.val = IF message_[src] = NULL THEN 0
                                    ELSE mem[message_[src]]]
  /\ UNCHANGED <<canLoan, nextBuf, bufSrc, mem, relLog, advisories, fault>>
  /\ UNCHANGED <<paramVars, eventVars>>

\* ~LoanedMessage()
Destroy(h, ret) ==
  /\ ~fault
  /\ hState[h] = "live"
  /\ hState' = [hState EXCEPT ![h] = "dead"]
  /\ relLog' = [relLog EXCEPT ![h] = DtorCalls(pub_[h], message_[h], canLoan, ret)]
  /\ message_' = [message_ EXCEPT ![h] = DtorMessage(pub_[h], message_[h])]
  /\ lastOp' = [NoOp EXCEPT !.op = "destroy", !.h = h, !.buf = message_[h]]
  /\ UNCHANGED <<canLoan, pub_, nextBuf, bufSrc, mem, movedFrom, advisories, fault>>
  /\ UNCHANGED <<paramVars, eventVars>>

\* MessageT & get() const { return *message_; }  followed by a store of v
\* through the returned reference.
Get(h, v) ==
  /\ ~fault
  /\ hState[h] = "live"
  /\ IF message_[h] = NULL
       THEN /\ fault' = TRUE
            /\ UNCHANGED mem
       ELSE /\ mem' = [mem EXCEPT ![message_[h]] = v]
            /\ UNCHANGED fault
  /\ lastOp' = [NoOp EXCEPT !.op = "get", !.h = h, !.buf = message_[h], !.val = v]
  /\ UNCHANGED <<canLoan, hState, pub_, message_, nextBuf, bufSrc, relLog,
                 movedFrom, advisories>>
  /\ UNCHANGED <<paramVars, eventVars>>

\* The publisher stops reporting pool-loan capability (its context was shut
\* down): can_loan_messages() answers false from now on.
CapabilityLost ==
  /\ ~fault
  /\ canLoan
  /\ canLoan' = FALSE
  /\ lastOp' = [NoOp EXCEPT !.op = "capability_lost"]
  /\ UNCHANGED <<hState, pub_, message_, nextBuf, bufSrc, mem, relLog,
                 movedFrom, advisories, fault>>
  /\ UNCHANGED <<paramVars, eventVars>>

InitLoan ==
  /\ canLoan \in BOOLEAN
  /\ hState = [h \in Handles |-> "none"]
  /\ pub_ = [h \in Handles |-> NULL]
  /\ message_ = [h \in Handles |-> NULL]
  /\ nextBuf = 0
  /\ bufSrc = [b \in Buffers |-> "none"]
  /\ mem = [b \in Buffers |-> 0]
  /\ relLog = [h \in Handles |-> <<>>]
  /\ movedFrom = [h \in Handles |-> FALSE]
  /\ advisories = 0
  /\ fault = FALSE
  /\ lastOp = NoOp

NextLoan ==
  \/ \E h \in Handles, p \in {NULL, Pub}, poolOk \in BOOLEAN, allocOk \in BOOLEAN :
        Construct(h, p, poolOk, allocOk)
  \/ \E s \in Handles, d \in Handles : Move(s, d)
  \/ \E h \in Handles, ret \in {"OK", "ERR"} : Destroy(h, ret)
  \/ \E h \in Handles, v \in Contents : Get(h, v)
  \/ CapabilityLost

\* ------------------------------------------------ AsyncParametersClient


LocalNode == "local_node"      \* what node_->get_name() answers
RemoteNames == {"", "remote_node"}
Garbage == "garbage"           \* whatever an out-of-bounds read of names yields

Kinds == {"get_parameters", "get_parameter_types", "set_parameters",
          "set_parameters_atomically", "list_parameters"}

\* The calls whose argument is a list of names.
NamedKinds == {"get_parameters", "get_parameter_types"}

\* The client members the class declares (lines 396-402).
Members == Kinds \cup {"describe_parameters"}

\* The client members the constructor assigns (lines 229-238).
CreatedMembers == {"get_parameters", "get_parameter_types", "set_parameters",
                   "list_parameters", "describe_parameters"}

\* A client member that holds no client (a null shared_ptr).
NoClient == <<>>

\* The member an async call sends its request through.
ClientOf(kind) == kind

\* if (remote_node_name != "") remote_node_name_ = remote_node_name;
\* else remote_node_name_ = node_->get_name();
ResolveRemoteAsGiven(remote) == remote
ResolveRemote(remote) == IF remote # "" THEN remote ELSE LocalNode

\* remote_node_name_ + "__<service>"
ServiceName(target, member) == <<target, "__", member>>

\* The requested names of a call with n names: n distinct names.
AllNames == <<"a", "b", "c", "d">>
NameList(n) == SubSeq(AllNames, 1, n)

\* The responses the remote can send: m values, all different, for any m up
\* to MaxNames (more or fewer than the names requested).
ValueList(m) == [i \in 1..m |-> 10 * i]
Responses == {ValueList(m) : m \in 0..MaxNames}

\* names[i] for the index i the transform lambda computes (line 264): in
\* bounds it is the i-th name, out of bounds it is whatever memory holds.
NameAt(names, i) == IF i \in DOMAIN names THEN names[i] ELSE Garbage

\* The indexes `&pvalue - &pvalues[0]` can evaluate to (line 262). pvalue is
\* the lambda's by-value parameter, a copy that lives outside the pvalues
\* array, so the difference of the two addresses is unrelated to the position
\* of the element: any index, in or out of the bounds of names.
TransformIndexes == 0..(MaxNames + 1)

\* The value the completion handler puts into the promise.
HandlerResult(kind, names, resp, g) ==
  IF kind = "get_parameters"
    THEN [i \in DOMAIN resp |-> <<NameAt(names, g), resp[i]>>]
    ELSE resp

\* The outcomes of executing on destroyed or unrelated memory.
UBOutcomes == {"crash", "throw", "garbage"}

PendingFuture == [state |-> "pending", val |-> <<>>]

\* The shared state once the promise object is destroyed: ~promise() stores
\* a broken_promise error if the state is not ready yet.
AbandonPromise(f) ==
  IF f.state = "pending" THEN [state |-> "broken", val |-> <<>>] ELSE f

\* promise.set_value(v) on a live promise.
SetValue(f, v) ==
  IF f.state = "pending" THEN [state |-> "value", val |-> v] ELSE f

NoCall == [kind |-> "none", names |-> <<>>, cb |-> FALSE, frame |-> "none",
           via |-> "none", req |-> "none", fut |-> PendingFuture,
           ranFrame |-> "none", outcome |-> "none", resp |-> <<>>, idx |-> 0,
           sets |-> 0, readies |-> 0, cbCount |-> 0, cbReady |-> FALSE,
           reads |-> {}]

\* AsyncParametersClient(node, remote_node_name)
BuildClient(remote) ==
  /\ ~built
  /\ built' = TRUE
  /\ remoteArg' = remote
  /\ remote_node_name_' = ResolveRemote(remote)
  /\ clients' = [m \in Members |->
                   IF m \in CreatedMembers
                     THEN ServiceName(ResolveRemote(remote), m)
                     ELSE NoClient]
  /\ UNCHANGED <<call, pFault, bridge>>
  /\ UNCHANGED <<loanVars, eventVars>>

\* An async call up to and including async_send_request: the promise, the
\* future, the names and the callback are locals of the call's frame, and the
\* completion lambda captures them by reference (lines 255, 292, 325, 354, 382).
\* operator-> on a client member that holds no client (a null shared_ptr)
\* ends the process.
CallSend(kind, n, cb) ==
  /\ built /\ ~pFault
  /\ call.frame = "none"
  /\ kind \notin NamedKinds => n = 0
  /\ LET new == [NoCall EXCEPT !.kind = kind, !.names = NameList(n),
                               !.cb = cb, !.frame = "active"]
     IN IF clients[ClientOf(kind)] = NoClient
          THEN /\ pFault' = TRUE
               /\ call' = [new EXCEPT !.via = "null"]
          ELSE /\ call' = [new EXCEPT !.via = ClientOf(kind), !.req = "pending"]
               /\ UNCHANGED pFault
  /\ UNCHANGED <<built, remoteArg, remote_node_name_, clients, bridge>>
  /\ UNCHANGED <<loanVars, eventVars>>

\* return future_result: the frame is popped, promise_result is destroyed.
CallReturn ==
  /\ ~pFault
  /\ call.frame = "active"
  /\ call' = [call EXCEPT !.frame = "returned", !.fut = AbandonPromise(@),
                           !.readies = IF call.fut.state = "pending"
                                         THEN @ + 1 ELSE @]
  /\ UNCHANGED <<built, remoteArg, remote_node_name_, clients, pFault, bridge>>
  /\ UNCHANGED <<loanVars, eventVars>>

\* The completion lambda reads names[g] out of the bounds of names.
WildRead(k, resp, g) ==
  k.kind = "get_parameters" /\ resp # <<>> /\ g \notin DOMAIN k.names

\* The transport invokes the completion lambda with response resp; g is the
\* index the transform computes, ub the outcome of the undefined behaviour
\* the lambda runs into, if any.
Complete(resp, g, ub) ==
  /\ ~pFault
  /\ call.req = "pending"
  /\ (call.kind # "get_parameters" \/ resp = <<>>) => g = 0
  /\ (call.kind = "get_parameters" /\ resp # <<>>) => g # 0
  /\ (call.frame = "active" /\ ~WildRead(call, resp, g)) => ub = "crash"
  /\ IF call.frame = "active"
       THEN \* the captured locals are alive
            IF WildRead(call, resp, g) /\ ub = "crash"
              THEN /\ pFault' = TRUE
                   /\ call' = [call EXCEPT !.req = "done", !.ranFrame = "active",
                                 !.outcome = "crash", !.resp = resp, !.idx = g]
              ELSE /\ call' = [call EXCEPT !.req = "done", !.ranFrame = "active",
                                 !.outcome = "ran", !.resp = resp, !.idx = g,
                                 !.fut = SetValue(@, HandlerResult(call.kind,
                                                       call.names, resp, g)),
                                 !.sets = IF call.fut.state = "pending"
                                            THEN @ + 1 ELSE @,
                                 !.readies = IF call.fut.state = "pending"
                                               THEN @ + 1 ELSE @,
                                 !.cbCount = IF call.cb THEN @ + 1 ELSE @,
                                 !.cbReady = call.cb]
                   /\ UNCHANGED pFault
       ELSE \* the captured locals were destroyed when the call returned
            /\ pFault' = (ub = "crash")
            /\ call' = [call EXCEPT !.req = "done", !.ranFrame = "returned",
                          !.outcome = ub, !.resp = resp, !.idx = g,
                          !.cbCount = IF ub = "garbage" /\ call.cb THEN @ + 1 ELSE @,
                          !.cbReady = FALSE]
  /\ UNCHANGED <<built, remoteArg, remote_node_name_, clients, bridge>>
  /\ UNCHANGED <<loanVars, eventVars>>

\* The transport gives the request up (entity destroyed, middleware error):
\* the completion lambda is never invoked.
Drop ==
  /\ ~pFault
  /\ call.req = "pending"
  /\ call' = [call EXCEPT !.req = "dropped"]
  /\ UNCHANGED <<built, remoteArg, remote_node_name_, clients, pFault, bridge>>
  /\ UNCHANGED <<loanVars, eventVars>>

\* The caller reads the returned shared_future once it is ready.
ReadFuture ==
  /\ ~pFault
  /\ call.frame = "returned"
  /\ call.fut.state # "pending"
  /\ call.fut \notin call.reads
  /\ call' = [call EXCEPT !.reads = @ \cup {call.fut}]
  /\ UNCHANGED <<built, remoteArg, remote_node_name_, clients, pFault, bridge>>
  /\ UNCHANGED <<loanVars, eventVars>>

\* The deadlines a blocking wait can be given: none (what the synchronous
\* wrappers pass) or a deadline of 0 that has already elapsed.
Deadlines == {"none", "elapsed"}

NoBridge == [state |-> "idle", dl |-> "none", stepped |-> FALSE,
             result |-> <<>>]

\* The position of the blocking wait after its entry check: an elapsed
\* deadline fails the wait before the first step().
BridgeEntryStepsFirst(dl) == "waiting"
BridgeEntry(dl) == IF dl = "elapsed" THEN "timeout" ELSE "waiting"

\* What .get() on a ready future yields: its value, or the stored
\* broken_promise error rethrown.
FutureGet(f) == IF f.state = "value" THEN "value" ELSE "broken"

\* The outcome of one loop iteration after step() returned: a ready future
\* ends the wait with the future's content, otherwise a stop signal cancels
\* it, otherwise the wait goes on.
BridgeAfterStep(f, stop) ==
  IF f.state # "pending" THEN FutureGet(f)
  ELSE IF stop THEN "cancelled"
  ELSE "waiting"

\* A synchronous wrapper, after its async call returned the future, enters
\* the blocking wait on it (dl = "none"); a direct wait may carry a deadline.
BridgeStart(dl) ==
  /\ ~pFault
  /\ call.frame = "returned"
  /\ bridge.state = "idle"
  /\ bridge' = [NoBridge EXCEPT !.state = BridgeEntry(dl), !.dl = dl]
  /\ UNCHANGED <<built, remoteArg, remote_node_name_, clients, call, pFault>>
  /\ UNCHANGED <<loanVars, eventVars>>

\* One iteration of the wait loop: step() has serviced the runtime (the
\* completion handlers it ran are the Complete steps before this one), then
\* the loop looks at the future and at step()'s stop signal.
BridgeStep(stop) ==
  /\ ~pFault
  /\ bridge.state = "waiting"
  /\ call.fut.state # "pending" => ~stop
  /\ bridge' = [bridge EXCEPT !.stepped = TRUE,
                              !.state = BridgeAfterStep(call.fut, stop),
                              !.result = call.fut.val]
  /\ UNCHANGED <<built, remoteArg, remote_node_name_, clients, call, pFault>>
  /\ UNCHANGED <<loanVars, eventVars>>

\* The caller drops the future of a call whose request is settled; the next
\* call starts with a promise and a future of its own.
Forget ==
  /\ ~pFault
  /\ call.frame = "returned"
  /\ call.req \in {"done", "dropped"}
  /\ bridge.state # "waiting"
  /\ call' = NoCall
  /\ bridge' = NoBridge
  /\ UNCHANGED <<built, remoteArg, remote_node_name_, clients, pFault>>
  /\ UNCHANGED <<loanVars, eventVars>>

InitParam ==
  /\ built = FALSE
  /\ remoteArg = ""
  /\ remote_node_name_ = ""
  /\ clients = [m \in Members |-> NoClient]
  /\ call = NoCall
  /\ pFault = FALSE
  /\ bridge = NoBridge

NextParam ==
  \/ \E r \in RemoteNames : BuildClient(r)
  \/ \E k \in Kinds, n \in 0..MaxNames, cb \in BOOLEAN : CallSend(k, n, cb)
  \/ CallReturn
  \/ \E resp \in Responses, g \in TransformIndexes, ub \in UBOutcomes :
        Complete(resp, g, ub)
  \/ Drop
  \/ ReadFuture
  \/ \E dl \in Deadlines : BridgeStart(dl)
  \/ \E stop \in BOOLEAN : BridgeStep(stop)
  \/ Forget

\* ------------------------------------- QOSEventHandlerBase / QOSEventHandler

EHandlers == 1..MaxEHandlers
Slots == 1..WaitSetSize
NoIndex == 0                   \* wait_set_event_index_ before any registration

NoEvent == [op |-> "init", h |-> NULL, result |-> FALSE, read |-> {},
            count |-> 0, takes |-> 0, cbs |-> 0, err |-> "none",
            before |-> 0, info |-> 0, arg |-> 0, retry |-> FALSE,
            raised |-> FALSE]

\* return wait_set->events[wait_set_event_index_] == &event_handle_;
\* (the address of a handler's event_handle_ is modelled by the handler's id)
IsReadyAnyHandle(ws, idx, h) == ws[idx] # NULL
IsReady(ws, idx, h) == ws[idx] = h

\* The wait-set slots is_ready reads.
IsReadySlots(idx) == {idx}

\* return 1;
NumberOfReadyEventsQueued(pending) == pending
NumberOfReadyEvents(pending) == 1

\* Whether the constructor leaves by an exception, by init_func's answer:
\* if (ret != RCL_RET_OK) throw_from_rcl_error(...).
ConstructRaises(ret) == ret # "OK"

\* Whether the destructor leaves by an exception, by rcl_event_fini's answer:
\* a failure is logged and the error state reset.
DestroyRaisesOnFailure(ret) == ret # "OK"
DestroyRaises(ret) == FALSE

\* QOSEventHandler(callback, init_func, parent_handle, event_type): a failed
\* init_func makes the constructor throw, which runs ~QOSEventHandlerBase
\* for the already constructed base subobject. The new object takes the next
\* unused identity.
EConstruct(h, ret) ==
  /\ eState[h] = "none"
  /\ \A d \in EHandlers : d < h => eState[d] # "none"
  /\ IF ~ConstructRaises(ret)
       THEN /\ eState' = [eState EXCEPT ![h] = "live"]
            /\ eInit' = [eInit EXCEPT ![h] = TRUE]
            /\ UNCHANGED eFini
       ELSE /\ eState' = [eState EXCEPT ![h] = "failed"]
            /\ eFini' = [eFini EXCEPT ![h] = @ + 1]
            /\ UNCHANGED eInit
  /\ eLast' = [NoEvent EXCEPT !.op = "construct", !.h = h, !.err = ret,
                              !.raised = ConstructRaises(ret)]
  /\ UNCHANGED <<eIndex, wsEvents, ePending>>
  /\ UNCHANGED <<loanVars, paramVars>>

\* ~QOSEventHandlerBase(): rcl_event_fini; a failure is logged. The
\* occurrences queued on the native handle go with the handle.
EDestroy(h, ret) ==
  /\ eState[h] = "live"
  /\ eState' = [eState EXCEPT ![h] = "dead"]
  /\ eFini' = [eFini EXCEPT ![h] = @ + 1]
  /\ eLast' = [NoEvent EXCEPT !.op = "destroy", !.h = h, !.err = ret,
                              !.raised = DestroyRaises(ret)]
  /\ ePending' = [ePending EXCEPT ![h] = 0]
  /\ UNCHANGED <<eInit, eIndex, wsEvents>>
  /\ UNCHANGED <<loanVars, paramVars>>

\* bool is_ready(rcl_wait_set_t * wait_set). Before the first registration
\* wait_set_event_index_ is uninitialized and the answer is arbitrary.
EIsReady(h, wild) ==
  /\ eState[h] = "live"
  /\ IF eIndex[h] = NoIndex
       THEN eLast' = [NoEvent EXCEPT !.op = "is_ready", !.h = h, !.result = wild]
       ELSE /\ wild = FALSE
            /\ eLast' = [NoEvent EXCEPT !.op = "is_ready", !.h = h,
                            !.result = IsReady(wsEvents, eIndex[h], h),
                            !.read = IsReadySlots(eIndex[h])]
  /\ UNCHANGED <<eState, eInit, eFini, eIndex, wsEvents, ePending>>
  /\ UNCHANGED <<loanVars, paramVars>>

\* size_t get_number_of_ready_events()
EGetNumber(h) ==
  /\ eState[h] = "live"
  /\ eLast.op # "get_number" \/ eLast.h # h
  /\ eLast' = [NoEvent EXCEPT !.op = "get_number", !.h = h,
                              !.count = NumberOfReadyEvents(ePending[h])]
  /\ UNCHANGED <<eState, eInit, eFini, eIndex, wsEvents, ePending>>
  /\ UNCHANGED <<loanVars, paramVars>>

\* The rcl_take_event calls one execute() makes, by the take's answer.
TakeCallsRetrying(ret) == IF ret = "OK" THEN 1 ELSE 2
TakeCalls(ret) == 1

\* The event_callback_ invocations one execute() makes, by the take's answer:
\* a failed take is logged and execute() returns.
ExecuteCallbacksAlways(ret) == 1
ExecuteCallbacks(ret) == IF ret = "OK" THEN 1 ELSE 0

\* The info record a successful take writes into callback_info when n
\* occurrences are queued.
TakenInfo(n) == n + 1

\* void execute(): one rcl_take_event; the callback runs only if it succeeded
\* and gets the record the take filled in.
EExecute(h, ret) ==
  /\ eState[h] = "live"
  /\ LET again == eLast.op = "execute" /\ eLast.h = h /\ eLast.err = "ERR"
         cbs == ExecuteCallbacks(ret)
         rec == [NoEvent EXCEPT !.op = "execute", !.h = h, !.err = ret,
                                !.takes = TakeCalls(ret), !.cbs = cbs,
                                !.before = ePending[h], !.retry = again]
     IN IF ret = "OK"
          THEN /\ ePending' = [ePending EXCEPT ![h] = IF @ > 0 THEN @ - 1 ELSE 0]
               /\ eLast' = [rec EXCEPT !.info = TakenInfo(ePending[h]),
                                       !.arg = IF cbs > 0
                                                 THEN TakenInfo(ePending[h])
                                                 ELSE 0]
          ELSE /\ eLast' = rec
               /\ UNCHANGED ePending
  /\ UNCHANGED <<eState, eInit, eFini, eIndex, wsEvents>>
  /\ UNCHANGED <<loanVars, paramVars>>

\* The wait set's owner empties every slot (rcl_wait_set_clear).
WaitSetClear ==
  /\ \E i \in Slots : wsEvents[i] # NULL
  /\ wsEvents' = [i \in Slots |-> NULL]
  /\ eLast' = [NoEvent EXCEPT !.op = "clear"]
  /\ UNCHANGED <<eState, eInit, eFini, eIndex, ePending>>
  /\ UNCHANGED <<loanVars, paramVars>>

\* The wait set's owner registers handler h (rcl_wait_set_add_event): the
\* handle goes into the first free slot and that slot's index is stored in
\* wait_set_event_index_.
WaitSetAdd(h) ==
  /\ eState[h] = "live"
  /\ \A i \in Slots : wsEvents[i] # h
  /\ \E i \in Slots :
       /\ wsEvents[i] = NULL
       /\ \A j \in Slots : j < i => wsEvents[j] # NULL
       /\ wsEvents' = [wsEvents EXCEPT ![i] = h]
       /\ eIndex' = [eIndex EXCEPT ![h] = i]
  /\ eLast' = [NoEvent EXCEPT !.op = "add", !.h = h]
  /\ UNCHANGED <<eState, eInit, eFini, ePending>>
  /\ UNCHANGED <<loanVars, paramVars>>

\* The wait returns (rcl_wait): the slot of a source that is not ready is
\* emptied, the slot of a ready source keeps its handle.
WaitSetWait(i) ==
  /\ wsEvents[i] # NULL
  /\ ePending[wsEvents[i]] = 0
  /\ wsEvents' = [wsEvents EXCEPT ![i] = NULL]
  /\ eLast' = [NoEvent EXCEPT !.op = "wait"]
  /\ UNCHANGED <<eState, eInit, eFini, eIndex, ePending>>
  /\ UNCHANGED <<loanVars, paramVars>>

\* The middleware queues one more occurrence on h's native event handle.
Occurrence(h) ==
  /\ eState[h] = "live"
  /\ ePending[h] < MaxPending
  /\ ePending' = [ePending EXCEPT ![h] = @ + 1]
  /\ eLast' = [NoEvent EXCEPT !.op = "occurrence", !.h = h]
  /\ UNCHANGED <<eState, eInit, eFini, eIndex, wsEvents>>
  /\ UNCHANGED <<loanVars, paramVars>>

InitEvent ==
  /\ eState = [h \in EHandlers |-> "none"]
  /\ eInit = [h \in EHandlers |-> FALSE]
  /\ eFini = [h \in EHandlers |-> 0]
  /\ eIndex = [h \in EHandlers |-> NoIndex]
  /\ wsEvents = [i \in Slots |-> NULL]
  /\ ePending = [h \in EHandlers |-> 0]
  /\ eLast = NoEvent

NextEvent ==
  \/ \E h \in EHandlers, ret \in {"OK", "ERR"} : EConstruct(h, ret)
  \/ \E h \in EHandlers, ret \in {"OK", "ERR"} : EDestroy(h, ret)
  \/ \E h \in EHandlers, wild \in BOOLEAN : EIsReady(h, wild)
  \/ \E h \in EHandlers : EGetNumber(h)
  \/ \E h \in EHandlers, ret \in {"OK", "ERR"} : EExecute(h, ret)
  \/ WaitSetClear
  \/ \E h \in EHandlers : WaitSetAdd(h)
  \/ \E i \in Slots : WaitSetWait(i)
  \/ \E h \in EHandlers : Occurrence(h)

\* ---------------------------------------------------------- specifications

\* Every component before its first object is constructed.
Init == InitLoan /\ InitParam /\ InitEvent

\* The same, for a publisher that reports pool-loan capability.
InitCapable == canLoan = TRUE /\ Init

SpecLoan == Init /\ [][NextLoan]_vars

SpecParam == InitCapable /\ [][NextParam]_vars

SpecEvent == InitCapable /\ [][NextEvent]_vars

\* ------------------------------------------- LoanedMessage: properties

\* Number of release calls (pool return or allocator deallocate) made on
\* buffer b by all destructors so far.
ReleasesOn(b) ==
  Cardinality({c \in Handles \X (1..2) :
                 /\ c[2] \in DOMAIN relLog[c[1]]
                 /\ relLog[c[1]][c[2]][2] = b})

\* Some live handle holds buffer b.
Held(b) == \E h \in Handles : hState[h] = "live" /\ message_[h] = b

\* C1: every buffer of a successfully constructed LoanedMessage has had no
\* release call while a live handle holds it and exactly one release call
\* (a pool return, failed or not, or an allocator deallocate; never both,
\* never none) once the handle holding it has been destroyed, whatever moves
\* and destructions happened.
C1_ExactlyOneRelease ==
  \A b \in 1..nextBuf : ReleasesOn(b) = IF Held(b) THEN 0 ELSE 1

\* C1 witness: after a move, the destination was destroyed, its pool return
\* reported a failure, and the moved-from source was destroyed too.
C1_Witness ==
  \E h \in Handles, g \in Handles :
    /\ hState[h] = "dead" /\ hState[g] = "dead" /\ movedFrom[g] /\ ~movedFrom[h]
    /\ Len(relLog[h]) = 1
    /\ relLog[h][1][1] = "pool" /\ relLog[h][1][2] # NULL /\ relLog[h][1][3] = "ERR"

\* C6: right after moving a LoanedMessage that held a buffer, the source has
\* is_valid() false, the destination has is_valid() true and holds the buffer
\* the source held, with the contents it had before the move; and in every
\* state no two handles hold the same buffer.
C6_MoveTransfersOwnership ==
  /\ (lastOp.op = "move" /\ lastOp.buf # NULL) =>
        /\ ~is_valid(lastOp.src)
        /\ is_valid(lastOp.h)
        /\ message_[lastOp.h] = lastOp.buf
        /\ mem[lastOp.buf] = lastOp.val
  /\ \A h1 \in Handles, h2 \in Handles :
        (h1 # h2 /\ is_valid(h1)) => message_[h1] # message_[h2]

\* C6 witness: a move has just transferred a buffer whose contents were
\* changed through get() before the move.
C6_Witness ==
  /\ lastOp.op = "move" /\ lastOp.buf # NULL /\ lastOp.val # 0
  /\ message_[lastOp.h] = lastOp.buf

\* C7: the destructor of a moved-from LoanedMessage makes no release call,
\* neither the pool deallocation nor the allocator's deallocate.
C7_MovedFromDtorReleasesNothing ==
  \A h \in Handles : (hState[h] = "dead" /\ movedFrom[h]) => relLog[h] = <<>>

\* C8: every release call made on a buffer goes through the path the buffer
\* was acquired from (pool buffers to the pool, allocator buffers to the
\* allocator), whatever the capability query answers at construction and at
\* destruction.
C8_ReleasedThroughAcquiringPath ==
  \A h \in Handles : \A i \in DOMAIN relLog[h] :
    relLog[h][i][2] # NULL => relLog[h][i][1] = bufSrc[relLog[h][i][2]]

\* C9: a buffer that was acquired and not yet released is held by a live
\* handle whose is_valid() is true; a handle whose buffer has been released
\* has is_valid() false; and get() is never applied to a released buffer.
C9_ValidUntilRelease ==
  /\ \A b \in 1..nextBuf :
        ReleasesOn(b) = 0 =>
          \E h \in Handles : hState[h] = "live" /\ is_valid(h) /\ message_[h] = b
  /\ \A h \in Handles :
        is_valid(h) => (hState[h] = "live" /\ ReleasesOn(message_[h]) = 0)
  /\ (lastOp.op = "get" /\ lastOp.buf # NULL) => ReleasesOn(lastOp.buf) = 0

\* C9 witness: one buffer has been released, its handle reports is_valid()
\* false, and get() has just been applied to a handle that still holds another.
C9_Witness ==
  /\ lastOp.op = "get" /\ lastOp.buf # NULL /\ is_valid(lastOp.h)
  /\ \E h \in Handles, b \in 1..nextBuf :
       hState[h] = "dead" /\ ~is_valid(h) /\ ReleasesOn(b) = 1 /\ b # lastOp.buf

\* ----------------------------------- AsyncParametersClient: properties

\* C2: whenever the completion handler of an async call has run, the
\* promise, the future handle, the names and the callback it uses were alive
\* when it ran: it ran while the frame holding them was still active.
C2_CapturesAliveAtCompletion ==
  call.req = "done" => call.ranFrame = "active"

\* The result get_parameters owes for names and a response of equal length.
Paired(names, resp) == [i \in 1..Len(names) |-> <<names[i], resp[i]>>]

\* C3: a completed get_parameters call with N names whose response carries N
\* values delivers N entries, the i-th with the i-th name and the i-th value
\* (N = 0: the empty result), in every run the process survives.
C3_PositionalCorrespondence ==
  (call.kind = "get_parameters" /\ call.req = "done" /\ ~pFault
     /\ Len(call.resp) = Len(call.names))
    => call.fut = [state |-> "value", val |-> Paired(call.names, call.resp)]

\* C4: once the transport has completed a call (and the process survived
\* it) its promise has been fulfilled exactly once with a value; the future
\* became ready at most once; and all reads of the future saw the same value.
C4_FulfilledExactlyOnce ==
  /\ (call.req = "done" /\ ~pFault) => (call.sets = 1 /\ call.fut.state = "value")
  /\ call.readies <= 1
  /\ Cardinality(call.reads) <= 1

\* C5: while the completion handler of a call that has returned has not been
\* invoked, the returned future is pending: neither a value nor an error.
C5_PendingWithoutCompletion ==
  (call.frame = "returned" /\ call.req \in {"pending", "dropped"})
    => call.fut.state = "pending"

\* ------------------------------------------ QOSEventHandler: properties

\* C10: is_ready of a registered handler answers true exactly when the
\* wait-set slot at the handler's registered index holds the handler's own
\* event handle (false when that slot is empty or holds another handler's
\* handle), and it reads that slot only.
C10_IsReadyOwnSlotOnly ==
  (eLast.op = "is_ready" /\ eIndex[eLast.h] # NoIndex) =>
     /\ eLast.result <=> (wsEvents[eIndex[eLast.h]] = eLast.h)
     /\ eLast.read = {eIndex[eLast.h]}

\* C10 witness: is_ready has just answered false for a registered handler
\* whose slot holds another handler's handle, while that other handler's own
\* handle sits in the wait set.
C10_Witness ==
  /\ eLast.op = "is_ready" /\ eIndex[eLast.h] # NoIndex
  /\ ~eLast.result
  /\ wsEvents[eIndex[eLast.h]] \notin {NULL, eLast.h}

\* C11: one execute() makes one take and drains at most one occurrence; when
\* the take succeeds the callback is invoked exactly once with the record the
\* take filled in; when it fails the callback is not invoked, no second take
\* is made, nothing is drained and the handler is still alive for a later
\* cycle.
C11_ExecuteTakesOne ==
  eLast.op = "execute" =>
     /\ eLast.takes = 1
     /\ ePending[eLast.h] >= eLast.before - 1
     /\ eLast.err = "OK" =>
          (eLast.cbs = 1 /\ eLast.info # 0 /\ eLast.arg = eLast.info)
     /\ eLast.err # "OK" =>
          /\ eLast.cbs = 0 /\ eLast.arg = 0
          /\ ePending[eLast.h] = eLast.before
          /\ eState[eLast.h] = "live"

\* C11 witness: an execute() whose take failed was followed by an execute()
\* of the same handler whose take succeeded and whose callback ran, with
\* more than one occurrence queued.
C11_Witness ==
  /\ eLast.op = "execute" /\ eLast.retry /\ eLast.err = "OK"
  /\ eLast.cbs = 1 /\ eLast.before = 2 /\ ePending[eLast.h] = 1

\* C16: a constructor whose native initialization fails raises a failure and
\* leaves no handler object (one whose initialization succeeds raises nothing
\* and leaves a live handler); a destructor raises nothing and completes,
\* whether the native finalization succeeded or failed.
C16_InitFailureRaisedFiniFailureLogged ==
  /\ eLast.op = "construct" =>
       /\ eLast.raised <=> (eLast.err # "OK")
       /\ eState[eLast.h] = (IF eLast.err = "OK" THEN "live" ELSE "failed")
       /\ eLast.err # "OK" => ~eInit[eLast.h]
  /\ eLast.op = "destroy" =>
       /\ ~eLast.raised
       /\ eState[eLast.h] = "dead"
  /\ \A h \in EHandlers : eState[h] = "failed" => ~eInit[h]

\* C16 witness: a destructor whose native finalization failed has completed,
\* and an earlier construction failed in its native initialization.
C16_Witness ==
  /\ eLast.op = "destroy" /\ eLast.err = "ERR"
  /\ eState[eLast.h] = "dead"
  /\ \E h \in EHandlers : eState[h] = "failed"

\* C18: get_number_of_ready_events() answers 1, whatever the number of
\* occurrences queued on the native handle and whether or not the handler is
\* ready.
C18_NumberOfReadyEventsIsOne ==
  eLast.op = "get_number" => eLast.count = 1

\* C18 witness: get_number_of_ready_events() has answered for a handler with
\* the largest number of queued occurrences that is not ready in the wait
\* set.
C18_Witness ==
  /\ eLast.op = "get_number"
  /\ ePending[eLast.h] = MaxPending
  /\ eIndex[eLast.h] # NoIndex
  /\ ~IsReady(wsEvents, eIndex[eLast.h], eLast.h)

\* C12: when a completion handler has run without crashing the process, the
\* user callback has been invoked exactly once if one was provided and not at
\* all otherwise, after the promise was set and with a ready future.
C12_CallbackOnceWithReadyFuture ==
  (call.req = "done" /\ call.outcome # "crash") =>
     /\ call.cbCount = (IF call.cb THEN 1 ELSE 0)
     /\ call.cb => (call.cbReady /\ call.sets = 1)

\* C17: a client built with an empty remote node name targets the local
\* node's own name, one built with a non-empty remote name targets that
\* name, and every service client the constructor created carries the
\* service name made from that target name.
C17_RemoteTargetResolution ==
  built =>
     /\ remoteArg = "" => remote_node_name_ = LocalNode
     /\ remoteArg # "" => remote_node_name_ = remoteArg
     /\ \A m \in Members :
          clients[m] # NoClient => clients[m] = <<remote_node_name_, "__", m>>

\* C17 witness: a client built with an empty remote node name has sent a
\* request through a service client named after the local node.
C17_Witness ==
  /\ built /\ remoteArg = ""
  /\ call.req = "pending"
  /\ clients[call.via] = <<LocalNode, "__", call.via>>

\* C19: every async call that has started has sent its request, and sent it
\* through a client member the constructor assigned a service client to.
C19_SendsThroughCreatedClient ==
  call.kind # "none" =>
     /\ call.via \in CreatedMembers
     /\ clients[ClientOf(call.kind)] # NoClient
     /\ call.req # "none"

\* C20: when the get_parameters completion handler has run on a response
\* with values, the index it used to read the requested names lies within
\* the bounds of the names list.
C20_NameIndexInBounds ==
  (call.kind = "get_parameters" /\ call.req = "done" /\ call.resp # <<>>) =>
     call.idx \in DOMAIN call.names

\* C13: a synchronous wrapper (a blocking wait without deadline on the
\* future its async call returned) that has ended either returned the value
\* the completion handler put into the promise, or failed with a timeout or
\* a cancellation.
C13_SyncReturnsCompleteValueOrTimeout ==
  (bridge.dl = "none" /\ bridge.state \notin {"idle", "waiting"}) =>
     \/ /\ bridge.state = "value"
        /\ call.sets = 1
        /\ bridge.result = HandlerResult(call.kind, call.names, call.resp,
                                         call.idx)
     \/ bridge.state \in {"timeout", "cancelled"}

\* C14: a blocking wait entered with a deadline of 0 that has already
\* elapsed has failed with the timeout outcome and has not invoked step().
C14_ElapsedDeadlineNoStep ==
  (bridge.dl = "elapsed" /\ bridge.state # "idle") =>
     (bridge.state = "timeout" /\ ~bridge.stepped)

\* C14 witness: a wait with an elapsed deadline has failed with the timeout
\* outcome while the request of its call is still outstanding.
C14_Witness ==
  /\ bridge.dl = "elapsed" /\ bridge.state = "timeout"
  /\ call.req = "pending"

\* C15 (as stated): a construction with a null publisher fails with the
\* invalid-owner error before any memory is requested, a construction fails
\* with the allocation error only when neither the pool nor the allocator can
\* supply memory, and a failed construction leaves no handle and never runs a
\* release action.
C15_AllocationErrorOnlyIfNeitherSupplies ==
  /\ lastOp.op = "construct" =>
       /\ lastOp.pubArg = NULL => (lastOp.err = "null_pub" /\ lastOp.req = "none")
       /\ lastOp.err \in AllocationErrors => (~lastOp.poolOk /\ ~lastOp.allocOk)
  /\ \A h \in Handles :
       hState[h] = "failed" => (~is_valid(h) /\ relLog[h] = <<>>)

\* C15 (amended): a construction with a null publisher fails with the
\* invalid-owner error before any memory is requested; with a publisher it
\* asks exactly one source, the pool if the publisher can loan and the
\* allocator otherwise, and fails with the allocation error exactly when that
\* one source cannot supply memory, whether or not the other could; a failed
\* construction leaves no handle and never runs a release action.
C15_AllocationErrorIffAskedSourceFails ==
  /\ lastOp.op = "construct" =>
       /\ lastOp.pubArg = NULL <=> lastOp.err = "null_pub"
       /\ lastOp.err = "null_pub" => lastOp.req = "none"
       /\ lastOp.req = "pool" =>
            (lastOp.err \in AllocationErrors <=> ~lastOp.poolOk)
       /\ lastOp.req = "alloc" =>
            (lastOp.err \in AllocationErrors <=> ~lastOp.allocOk)
       /\ lastOp.err \in AllocationErrors => lastOp.req # "none"
       /\ lastOp.err # "ok" <=> hState[lastOp.h] = "failed"
  /\ \A h \in Handles :
       hState[h] = "failed" => (~is_valid(h) /\ relLog[h] = <<>>)

\* C15 witness: a construction asked the pool, which had no memory, and
\* failed with the allocation error although the allocator could supply;
\* an earlier construction failed on a null publisher.
C15_Witness ==
  /\ lastOp.op = "construct" /\ lastOp.req = "pool"
  /\ lastOp.err = "no_memory" /\ ~lastOp.poolOk /\ lastOp.allocOk
  /\ hState[lastOp.h] = "failed"
  /\ \E h \in Handles : h # lastOp.h /\ hState[h] = "failed"

\* C21: rcl_event_fini has been called exactly once on the handle of every
\* destroyed handler whose initialization succeeded, not at all on the handle
\* of a live handler, and never on a handle whose initialization failed;
\* execute() and is_ready() have only acted on handles not yet finalized.
C21_FiniOnceOnInitializedOnly ==
  /\ \A h \in EHandlers :
       /\ (eInit[h] /\ eState[h] = "dead") => eFini[h] = 1
       /\ eState[h] = "live" => eFini[h] = 0
       /\ ~eInit[h] => eFini[h] = 0
  /\ eLast.op \in {"execute", "is_ready"} => eFini[eLast.h] = 0

\* C22: a construction with a publisher asks exactly one memory source, the
\* pool if and only if the publisher reports pool-loan capability and the
\* allocator otherwise; the advisory that loaning is unavailable is never
\* emitted on the pool path and is emitted at most one time over all the
\* constructions made.
C22_OneSourceOneAdvisory ==
  /\ (lastOp.op = "construct" /\ lastOp.pubArg # NULL) =>
       /\ lastOp.req \in {"pool", "alloc"}
       /\ lastOp.req = "pool" <=> canLoan
  /\ canLoan => advisories = 0
  /\ advisories <= 1

====
